---- MODULE Spec2Model ----
(***************************************************************************)
(* Model of the NEO project's ingestion pipeline: the record loaders of    *)
(* extract.py (load_neos, load_approaches), the entity model of models.py  *)
(* (NearEarthObject, CloseApproach) and the linking step that joins them.  *)
(*                                                                         *)
(* Python values are records of one shape, [t, s, n]: t is the type, s the *)
(* text of a str, n the number of an int, or of a float in hundredths.     *)
(* Objects live in heaps (sequences indexed by reference); reference 0 is  *)
(* None.  The list objects behind NearEarthObject.approaches have a heap   *)
(* of their own, so that two attributes naming one list can be told from   *)
(* two attributes naming equal lists.                                      *)
(***************************************************************************)
EXTENDS Integers, Sequences, FiniteSets, TLC

VARIABLES
    call,          \* SpecLoad: the loader under way, "load_neos" or "load_approaches"
    source,        \* SpecLoad: the rows (records) the reader yields, in order
    pos,           \* SpecLoad: how many of them the loop has taken
    hazardous,     \* load_neos' local variable hazardous
    out,           \* the loader's local list (neos, ca): references, in order
    status,        \* "running", "returned", or the exception that ended the call
    result,        \* the returned collection (<<>> until the loader returns)
    neoObjs,       \* heap of NearEarthObject instances
    caObjs,        \* heap of CloseApproach instances
    lists,         \* heap of list objects; lists[DefaultList] is the default argument
    pc,            \* Spec: "construct", "index", "link", "built"
    db,            \* Spec: the database being built
    rendered,      \* Spec: the outcome of the last str(approach)
    hist           \* Spec: what was done to each object (history, read by no action)

vars == <<call, source, pos, hazardous, out, status, result,
          neoObjs, caObjs, lists, pc, db, rendered, hist>>

loadVars == <<call, source, pos, hazardous, out, status, result>>
dbVars == <<pc, db, rendered, hist>>

(***************************************************************************)
(* Bounds of the model.                                                    *)
(***************************************************************************)
MaxRows == 2
MaxItems == 2
MaxNeos == 2
MaxApproaches == 2

(***************************************************************************)
(* Python values and the built-ins the source calls.                       *)
(***************************************************************************)
PyStr(s) == [t |-> "str", s |-> s, n |-> 0]
PyInt(n) == [t |-> "int", s |-> "", n |-> n]
PyFloat(n) == [t |-> "float", s |-> "", n |-> n]
PyBool(b) == [t |-> "bool", s |-> "", n |-> IF b THEN 1 ELSE 0]
PyNone == [t |-> "NoneType", s |-> "", n |-> 0]
NaN == [t |-> "float", s |-> "nan", n |-> 0]
Unbound == [t |-> "unbound", s |-> "", n |-> 0]
None == 0

Ok(v) == [exc |-> "", val |-> v]
Raise(e) == [exc |-> e, val |-> PyNone]

\* The decimal literals of the model's inputs, with their value in hundredths.
NumericLiterals == {"0", "0.15", "5.2", "16.84"}
FloatOfLiteral(s) ==
    CASE s = "0" -> 0
      [] s = "0.15" -> 15
      [] s = "5.2" -> 520
      [] s = "16.84" -> 1684

\* float(x): a float as it is, an int or bool widened, a str parsed
\* (ValueError when it is no number, the empty string included), TypeError
\* for None.
float(x) ==
    IF x.t = "float" THEN Ok(x)
    ELSE IF x.t \in {"int", "bool"} THEN Ok(PyFloat(100 * x.n))
    ELSE IF x.t = "str"
         THEN IF x.s \in NumericLiterals
              THEN Ok(PyFloat(FloatOfLiteral(x.s)))
              ELSE Raise("ValueError")
    ELSE Raise("TypeError")

\* bool(x), the truth value `if x` tests: None, zero and the empty string
\* are false; NaN is true.
bool(x) ==
    IF x.t = "NoneType" THEN FALSE
    ELSE IF x.t = "str" THEN x.s # ""
    ELSE IF x = NaN THEN TRUE
    ELSE x.n # 0

\* str(x) of the values a designation can be: a str as it is, an int in
\* decimal, None as "None".
str(x) ==
    CASE x.t = "str" -> x
      [] x.t = "int" -> PyStr(ToString(x.n))
      [] x.t = "NoneType" -> PyStr("None")

\* format(x, '.2f') of a float: two decimals, "nan" for NaN.
Format2f(x) ==
    IF x = NaN THEN "nan"
    ELSE ToString(x.n \div 100) \o "."
         \o (IF x.n % 100 < 10 THEN "0" ELSE "") \o ToString(x.n % 100)

\* helpers.cd_to_datetime and helpers.datetime_to_str: the fixed format
\* YYYY-MM-DD HH:MM, minute precision.
WellFormedTimes == {"2020-01-01 06:00", "2020-12-31 23:59"}
cd_to_datetime(time) ==
    IF time.t = "str" /\ time.s \in WellFormedTimes
    THEN Ok([t |-> "datetime", s |-> time.s, n |-> 0])
    ELSE Raise("InvalidTimeError")
datetime_to_str(dt) == dt.s

(***************************************************************************)
(* models.py: NearEarthObject                                              *)
(***************************************************************************)
DefaultList == 1

\* A faulty variant of list: the attribute names the argument's own list object.
list_alias(heap, ref) == [ref |-> ref, heap |-> heap]

\* list(approaches): a new list object holding the argument's elements.
list(heap, ref) == [ref |-> Len(heap) + 1, heap |-> Append(heap, heap[ref])]

\* NearEarthObject.__init__(designation, name, diameter, hazardous,
\* approaches): the new instance and the list heap after it, or the
\* exception float(diameter) raised.
NearEarthObject(heap, designation, name, diameter, hazard, approaches) ==
    LET d == IF diameter = PyStr("") THEN Ok(NaN) ELSE float(diameter)
        l == list(heap, approaches)
    IN  IF d.exc # ""
        THEN [exc |-> d.exc, heap |-> heap,
              self |-> [designation |-> str(designation), name |-> PyNone,
                        diameter |-> NaN, hazardous |-> hazard,
                        approaches |-> None]]
        ELSE [exc |-> "", heap |-> l.heap,
              self |-> [designation |-> str(designation),
                        name |-> IF name = PyStr("") THEN PyNone ELSE name,
                        diameter |-> d.val,
                        hazardous |-> hazard,
                        approaches |-> l.ref]]

\* A faulty variant of fullname: the name is joined on whether or not there is one.
fullname_always_joined(neo) == neo.designation.s \o " " \o neo.name.s

\* NearEarthObject.fullname
fullname(neo) ==
    IF neo.name # PyNone
    THEN neo.designation.s \o " " \o neo.name.s
    ELSE neo.designation.s

(***************************************************************************)
(* models.py: CloseApproach                                                *)
(***************************************************************************)
\* A faulty variant of initial_neo: the constructor keeps its neo argument.
initial_neo_kept(neo) == neo

\* What __init__ stores in self.neo, given its neo argument.
initial_neo(neo) == None

\* distance and velocity: NaN for a false value, else float of it.
float_or_nan(x) == IF bool(x) THEN float(x) ELSE Ok(NaN)

\* CloseApproach.__init__(designation, time, distance, velocity, neo): the
\* new instance, or the first exception raised.
CloseApproach(designation, time, distance, velocity, neo) ==
    LET tm == cd_to_datetime(time)
        di == float_or_nan(distance)
        ve == float_or_nan(velocity)
        exc == IF tm.exc # "" THEN tm.exc
               ELSE IF di.exc # "" THEN di.exc
               ELSE ve.exc
    IN  [exc |-> exc,
         self |-> [_designation |-> str(designation),
                   time |-> tm.val,
                   distance |-> di.val,
                   velocity |-> ve.val,
                   neo |-> initial_neo(neo)]]

\* CloseApproach.time_str
time_str(ca) == datetime_to_str(ca.time)

\* A faulty variant of CloseApproach__str__: an unlinked approach renders its None.
CloseApproach__str__tolerant(ca, neos) ==
    Ok(PyStr("A close approach event ocurred on " \o time_str(ca) \o " for '"
             \o (IF ca.neo = None THEN "None" ELSE fullname(neos[ca.neo]))
             \o "' at a distance of " \o Format2f(ca.distance)
             \o " au with a velocity of " \o Format2f(ca.velocity) \o " km/s. "))

\* CloseApproach.__str__: self.neo.fullname of None is an AttributeError.
CloseApproach__str__(ca, neos) ==
    IF ca.neo = None
    THEN Raise("AttributeError")
    ELSE Ok(PyStr("A close approach event ocurred on " \o time_str(ca) \o " for '"
                  \o fullname(neos[ca.neo])
                  \o "' at a distance of " \o Format2f(ca.distance)
                  \o " au with a velocity of " \o Format2f(ca.velocity) \o " km/s. "))

(***************************************************************************)
(* extract.py: the record loaders                                          *)
(***************************************************************************)
BoundedSeq(S, n) == UNION {[1..k -> S] : k \in 0..n}

\* The rows csv.DictReader yields: every value a str.
NeoRows ==
    {[pdes |-> p, name |-> nm, diameter |-> d, pha |-> h] :
        p \in {"433", "1036"}, nm \in {"", "Eros"},
        d \in {"", "16.84"}, h \in {"Y", "N", "", "X"}}
    \cup {[pdes |-> "433", name |-> "Eros", diameter |-> "wide", pha |-> "N"]}

\* The records of contents['data']: positional fields, JSON strings, numbers
\* or null; load_approaches reads positions 0, 3, 4 and 7.
Filler == PyStr("-")
Item(des, time, dist, vel) == <<des, Filler, Filler, time, dist, Filler, Filler, vel>>
RawNumbers == {PyStr(""), PyStr("0"), PyStr("0.15"), PyStr("5.2"), PyStr("abc"),
               PyNone, PyInt(0)}
GoodTime == PyStr("2020-01-01 06:00")
FullItems ==
    {Item(d, GoodTime, x, PyStr("5.2")) : d \in {PyStr("433"), PyInt(433)}, x \in RawNumbers}
    \cup {Item(PyStr("433"), GoodTime, PyStr("0.15"), v) : v \in RawNumbers}
    \cup {Item(PyStr("1036"), PyStr("2020-12-31 23:59"), PyStr("5.2"), PyStr("0.15")),
          Item(PyStr("433"), PyStr("January 1st"), PyStr("0.15"), PyStr("5.2"))}
ShortItems ==
    {SubSeq(Item(PyStr("433"), GoodTime, x, PyStr("5.2")), 1, k) :
        x \in {PyStr("0.15"), PyStr("abc")}, k \in {0, 4, 5, 7}}
Items == FullItems \cup ShortItems

\* A faulty variant of assign_hazardous: the empty flag is not taken for 'N'.
assign_hazardous_no_empty(pha, prev) ==
    IF pha = "Y" THEN PyBool(TRUE)
    ELSE IF pha = "N" THEN PyBool(FALSE)
    ELSE prev

\* load_neos' two if statements on row['pha']: hazardous after them, given
\* hazardous before them (Unbound in the first iteration).
assign_hazardous(pha, prev) ==
    IF pha = "Y" THEN PyBool(TRUE)
    ELSE IF pha = "N" \/ pha = "" THEN PyBool(FALSE)
    ELSE prev

\* A faulty variant of append: the element goes to the front of the list.
append_front(xs, x) == <<x>> \o xs

\* neos.append(neo), ca.append(...)
append(xs, x) == Append(xs, x)

\* item[k], k counted from 0
getitem(item, k) == IF k < Len(item) THEN Ok(item[k + 1]) ELSE Raise("IndexError")

\* A faulty variant of load_field: the raw field is handed to the constructor.
load_field_raw(item, k) == getitem(item, k)

\* float(item[k]), as load_approaches evaluates it for k = 4 and k = 7
load_field(item, k) ==
    LET g == getitem(item, k)
    IN  IF g.exc # "" THEN g ELSE float(g.val)

\* One iteration of load_neos' loop.
LoadNeosRow ==
    /\ call = "load_neos" /\ status = "running" /\ pos < Len(source)
    /\ LET row == source[pos + 1]
           hz == assign_hazardous(row.pha, hazardous)
           r == NearEarthObject(lists, PyStr(row.pdes), PyStr(row.name),
                                PyStr(row.diameter), hz, DefaultList)
       IN  /\ pos' = pos + 1
           /\ hazardous' = hz
           /\ IF hz = Unbound
              THEN status' = "UnboundLocalError" /\ UNCHANGED <<out, neoObjs, lists>>
              ELSE IF r.exc # ""
              THEN status' = r.exc /\ UNCHANGED <<out, neoObjs, lists>>
              ELSE /\ neoObjs' = Append(neoObjs, r.self)
                   /\ lists' = r.heap
                   /\ out' = append(out, Len(neoObjs) + 1)
                   /\ UNCHANGED status
    /\ UNCHANGED <<call, source, result, caObjs, dbVars>>

\* return neos
LoadNeosReturn ==
    /\ call = "load_neos" /\ status = "running" /\ pos = Len(source)
    /\ status' = "returned"
    /\ result' = out
    /\ UNCHANGED <<call, source, pos, hazardous, out, neoObjs, caObjs, lists, dbVars>>

\* One iteration of load_approaches' loop: the arguments in the order Python
\* evaluates them, then the constructor.
LoadApproachesItem ==
    /\ call = "load_approaches" /\ status = "running" /\ pos < Len(source)
    /\ LET item == source[pos + 1]
           a0 == getitem(item, 0)
           a3 == getitem(item, 3)
           a4 == load_field(item, 4)
           a7 == load_field(item, 7)
           exc == IF a0.exc # "" THEN a0.exc
                  ELSE IF a3.exc # "" THEN a3.exc
                  ELSE IF a4.exc # "" THEN a4.exc
                  ELSE a7.exc
           r == CloseApproach(a0.val, a3.val, a4.val, a7.val, None)
       IN  /\ pos' = pos + 1
           /\ IF exc # ""
              THEN status' = exc /\ UNCHANGED <<out, caObjs>>
              ELSE IF r.exc # ""
              THEN status' = r.exc /\ UNCHANGED <<out, caObjs>>
              ELSE /\ caObjs' = Append(caObjs, r.self)
                   /\ out' = append(out, Len(caObjs) + 1)
                   /\ UNCHANGED status
    /\ UNCHANGED <<call, source, hazardous, result, neoObjs, lists, dbVars>>

\* return ca
LoadApproachesReturn ==
    /\ call = "load_approaches" /\ status = "running" /\ pos = Len(source)
    /\ status' = "returned"
    /\ result' = out
    /\ UNCHANGED <<call, source, pos, hazardous, out, neoObjs, caObjs, lists, dbVars>>

EmptyDb == [neos |-> <<>>, approaches |-> <<>>, i |-> 0,
            byDesignation |-> <<>>, byName |-> <<>>, orphans |-> 0]
NoRender == [of |-> None, exc |-> "", val |-> PyNone, before |-> <<>>, after |-> <<>>]
NoHist == [appended |-> <<>>, born |-> <<>>, args |-> <<>>, linked |-> {}]

InitHeap ==
    /\ neoObjs = <<>>
    /\ caObjs = <<>>
    /\ lists = <<(<<>>)>>

InitLoad ==
    /\ call \in {"load_neos", "load_approaches"}
    /\ source \in IF call = "load_neos" THEN BoundedSeq(NeoRows, MaxRows)
                  ELSE BoundedSeq(Items, MaxItems)
    /\ pos = 0
    /\ hazardous = Unbound
    /\ out = <<>>
    /\ status = "running"
    /\ result = <<>>
    /\ InitHeap
    /\ pc = "idle"
    /\ db = EmptyDb
    /\ rendered = NoRender
    /\ hist = NoHist

NextLoad ==
    \/ LoadNeosRow
    \/ LoadNeosReturn
    \/ LoadApproachesItem
    \/ LoadApproachesReturn

SpecLoad == InitLoad /\ [][NextLoad]_vars

(***************************************************************************)
(* Claims about the loaders, checked under SpecLoad.  In SpecLoad the      *)
(* heaps start empty and an iteration that raises ends the call, so the    *)
(* i-th object of a heap is the one constructed for source[i].             *)
(***************************************************************************)
KnownFlags == {"Y", "N", ""}

\* C2 (as claimed): the NearEarthObject load_neos produces for a row whose
\* pha is outside {'Y', 'N', ''} has hazardous == False, whatever the rows
\* before it held.
C2_UnknownFlagIsFalse ==
    call = "load_neos" =>
        \A i \in 1..Len(neoObjs) :
            source[i].pha \notin KnownFlags => neoObjs[i].hazardous = PyBool(FALSE)

\* C3: the NearEarthObject produced for a row with pha '' or 'N' has
\* hazardous == False and the one for a row with pha 'Y' has hazardous ==
\* True, whatever the rows before it held.
C3_KnownFlags ==
    call = "load_neos" =>
        \A i \in 1..Len(neoObjs) :
            /\ source[i].pha \in {"", "N"} => neoObjs[i].hazardous = PyBool(FALSE)
            /\ source[i].pha = "Y" => neoObjs[i].hazardous = PyBool(TRUE)

\* C3's case: an object produced for a row with the empty flag, right after
\* one produced for a row flagged 'Y'.
C3_Witness ==
    /\ call = "load_neos" /\ Len(neoObjs) >= 2
    /\ source[1].pha = "Y" /\ source[2].pha = ""

\* The claims' reading of an empty raw number: null, the empty string, or
\* zero (as a JSON number or as its text).
RawEmpty(x) ==
    \/ x = PyNone
    \/ x = PyStr("")
    \/ float(x).exc = "" /\ float(x).val = PyFloat(0)

Measure(ca, k) == IF k = 4 THEN ca.distance ELSE ca.velocity

\* C5 (as claimed): for every record load_approaches takes that has its
\* eight fields, distance (velocity) is NaN if the raw field at position 4
\* (7) is empty, and otherwise is the float parsed from it, not NaN.
C5_NanIffEmpty ==
    call = "load_approaches" =>
        \A i \in 1..pos : \A k \in {4, 7} :
            Len(source[i]) >= 8 =>
                IF RawEmpty(source[i][k + 1])
                THEN i <= Len(caObjs) /\ Measure(caObjs[i], k) = NaN
                ELSE i <= Len(caObjs) =>
                        /\ Measure(caObjs[i], k) # NaN
                        /\ Measure(caObjs[i], k) = float(source[i][k + 1]).val

Unconvertible(x) == float(x).exc # ""
Malformed(item) ==
    \/ Len(item) < 8
    \/ Unconvertible(item[5])
    \/ Unconvertible(item[8])

NeoBuiltFrom(neo, row) ==
    /\ neo.designation = PyStr(row.pdes)
    /\ neo.name = IF row.name = "" THEN PyNone ELSE PyStr(row.name)
    /\ neo.diameter = IF row.diameter = "" THEN NaN ELSE float(PyStr(row.diameter)).val

ApproachBuiltFrom(ca, item) ==
    /\ ca._designation = str(item[1])
    /\ ca.time.s = item[4].s

\* C7: when a loader returns, its output has as many elements as the
\* source has rows, the i-th built from the i-th row; rows with the same
\* designation stay separate elements.
C7_OrderAndCardinality ==
    status = "returned" =>
        /\ Len(result) = Len(source)
        /\ \A i \in 1..Len(result) :
              IF call = "load_neos"
              THEN NeoBuiltFrom(neoObjs[result[i]], source[i])
              ELSE ApproachBuiltFrom(caObjs[result[i]], source[i])
        /\ \A i, j \in 1..Len(result) : i # j => result[i] # result[j]

\* C7's case: load_neos returned two rows that share a designation and
\* differ in their names.
C7_Witness ==
    /\ call = "load_neos" /\ status = "returned" /\ Len(source) = 2
    /\ source[1].pdes = source[2].pdes
    /\ source[1].name # source[2].name

\* C8: fullname is the designation when the row's name is empty (the name
\* is then None), and designation + ' ' + name for any other name.
C8_Fullname ==
    call = "load_neos" =>
        \A i \in 1..Len(neoObjs) :
            IF source[i].name = ""
            THEN /\ neoObjs[i].name = PyNone
                 /\ fullname(neoObjs[i]) = source[i].pdes
            ELSE fullname(neoObjs[i]) = source[i].pdes \o " " \o source[i].name

\* C8's case: an object built from a nameless row and one from a named row.
C8_Witness ==
    /\ call = "load_neos" /\ Len(neoObjs) = 2
    /\ source[1].name = "" /\ source[2].name = "Eros"

(***************************************************************************)
(* The entity model in use: constructor calls, the database build that     *)
(* links approaches to their objects, and str(approach).                   *)
(***************************************************************************)
\* The arguments of the constructor calls: those the loaders pass, and a
\* designation given as a number, an empty distance, and a neo argument
\* (None, or the object constructed last).
NeoArgs ==
    {[designation |-> PyStr(d[1]), name |-> PyStr(d[2]), diameter |-> PyStr(d[3]),
      hazardous |-> PyBool(d[4])] :
        d \in {<<"433", "Eros", "16.84", FALSE>>, <<"1036", "", "", TRUE>>}}
ApproachArgs ==
    {[designation |-> d[1], time |-> GoodTime, distance |-> d[2],
      velocity |-> PyFloat(520), neo |-> d[3]] :
        d \in {<<PyStr("433"), PyFloat(15), None>>,
               <<PyInt(433), PyStr(""), Len(neoObjs)>>,
               <<PyStr("1036"), PyFloat(15), None>>,
               <<PyStr("433"), PyFloat(15), Len(neoObjs)>>}}

\* neo = NearEarthObject(designation, name, diameter, hazardous)
NewNeo ==
    /\ Len(neoObjs) < MaxNeos
    /\ \E a \in NeoArgs :
         LET r == NearEarthObject(lists, a.designation, a.name, a.diameter,
                                  a.hazardous, DefaultList)
         IN  /\ r.exc = ""
             /\ neoObjs' = Append(neoObjs, r.self)
             /\ lists' = r.heap
             /\ hist' = [hist EXCEPT !.appended = Append(@, <<>>),
                                     !.born = Append(@, Cardinality(hist.linked))]
    /\ UNCHANGED <<loadVars, caObjs, pc, db, rendered>>

\* approach = CloseApproach(designation, time, distance, velocity, neo)
NewApproach ==
    /\ Len(caObjs) < MaxApproaches
    /\ \E a \in ApproachArgs :
         LET r == CloseApproach(a.designation, a.time, a.distance, a.velocity, a.neo)
         IN  /\ r.exc = ""
             /\ caObjs' = Append(caObjs, r.self)
             /\ hist' = [hist EXCEPT !.args = Append(@, [designation |-> a.designation,
                                                          neo |-> a.neo])]
    /\ UNCHANGED <<loadVars, neoObjs, lists, pc, db, rendered>>

\* str(approach), for any approach there is; rendered keeps the outcome of
\* the last such call, with the approach as it was before and after it.
RenderApproach ==
    /\ UNCHANGED <<loadVars, neoObjs, caObjs, lists, pc, db, hist>>
    /\ \E c \in 1..Len(caObjs) :
         LET r == CloseApproach__str__(caObjs[c], neoObjs)
         IN  rendered' = [of |-> c, exc |-> r.exc, val |-> r.val,
                          before |-> <<caObjs[c]>>, after |-> <<caObjs'[c]>>]

Put(dict, key, value) ==
    [k \in DOMAIN dict \cup {key} |-> IF k = key THEN value ELSE dict[k]]

\* build_database(neo_records, approach_records) is called with every
\* object constructed so far.
BuildStart ==
    /\ pc = "construct"
    /\ pc' = "index"
    /\ db' = [EmptyDb EXCEPT !.neos = [k \in 1..Len(neoObjs) |-> k],
                             !.approaches = [k \in 1..Len(caObjs) |-> k]]
    /\ UNCHANGED <<loadVars, neoObjs, caObjs, lists, rendered, hist>>

\* The pass over the objects: the indices by designation and by name, the
\* later object taking the key.
IndexNeo ==
    /\ pc = "index" /\ db.i < Len(db.neos)
    /\ LET n == db.neos[db.i + 1]
           neo == neoObjs[n]
       IN  db' = [db EXCEPT !.i = @ + 1,
                            !.byDesignation = Put(@, neo.designation.s, n),
                            !.byName = IF neo.name = PyNone THEN @
                                       ELSE Put(@, neo.name.s, n)]
    /\ UNCHANGED <<loadVars, neoObjs, caObjs, lists, pc, rendered, hist>>

IndexDone ==
    /\ pc = "index" /\ db.i = Len(db.neos)
    /\ pc' = "link"
    /\ db' = [db EXCEPT !.i = 0]
    /\ UNCHANGED <<loadVars, neoObjs, caObjs, lists, rendered, hist>>

\* The pass over the approaches, in order: one whose designation is indexed
\* is appended to that object's approaches and has its neo set to it; any
\* other is counted as an orphan and dropped.
LinkApproach ==
    /\ pc = "link" /\ db.i < Len(db.approaches)
    /\ LET c == db.approaches[db.i + 1]
           key == caObjs[c]._designation.s
       IN  IF key \in DOMAIN db.byDesignation
           THEN LET n == db.byDesignation[key]
                IN  /\ lists' = [lists EXCEPT ![neoObjs[n].approaches] = Append(@, c)]
                    /\ caObjs' = [caObjs EXCEPT ![c].neo = n]
                    /\ db' = [db EXCEPT !.i = @ + 1]
                    /\ hist' = [hist EXCEPT !.appended[n] = Append(@, c),
                                            !.linked = @ \cup {c}]
           ELSE /\ db' = [db EXCEPT !.i = @ + 1, !.orphans = @ + 1]
                /\ UNCHANGED <<lists, caObjs, hist>>
    /\ UNCHANGED <<loadVars, neoObjs, pc, rendered>>

BuildDone ==
    /\ pc = "link" /\ db.i = Len(db.approaches)
    /\ pc' = "built"
    /\ UNCHANGED <<loadVars, neoObjs, caObjs, lists, db, rendered, hist>>

Init ==
    /\ call = "none"
    /\ source = <<>>
    /\ pos = 0
    /\ hazardous = Unbound
    /\ out = <<>>
    /\ status = "idle"
    /\ result = <<>>
    /\ InitHeap
    /\ pc = "construct"
    /\ db = EmptyDb
    /\ rendered = NoRender
    /\ hist = NoHist

Next ==
    \/ NewNeo
    \/ NewApproach
    \/ RenderApproach
    \/ BuildStart
    \/ IndexNeo
    \/ IndexDone
    \/ LinkApproach
    \/ BuildDone

Spec == Init /\ [][Next]_vars

(***************************************************************************)
(* Claims about the entity model and the linking, checked under Spec.      *)
(***************************************************************************)
RECURSIVE Count(_, _)
Count(x, xs) ==
    IF xs = <<>> THEN 0
    ELSE (IF Head(xs) = x THEN 1 ELSE 0) + Count(x, Tail(xs))

Approaches(n) == lists[neoObjs[n].approaches]

\* C1: after build_database completes, every approach whose designation is
\* that of some loaded object has its neo set to an object with the
\* approach's original designation, and occurs exactly once in that
\* object's approaches and in no other object's.
C1_LinkingComplete ==
    pc = "built" =>
        \A k \in 1..Len(db.approaches) :
            LET c == db.approaches[k]
                original == str(hist.args[c].designation)
            IN  (\E j \in 1..Len(db.neos) : neoObjs[db.neos[j]].designation = original)
                => /\ caObjs[c].neo # None
                   /\ neoObjs[caObjs[c].neo].designation = original
                   /\ Count(c, Approaches(caObjs[c].neo)) = 1
                   /\ \A m \in 1..Len(neoObjs) :
                         m # caObjs[c].neo => Count(c, Approaches(m)) = 0

\* C1's case: the build is complete over two objects that share a
\* designation and two approaches of that designation, one given as a
\* number.
C1_Witness ==
    /\ pc = "built"
    /\ Len(db.neos) >= 2 /\ Len(db.approaches) >= 2
    /\ neoObjs[1].designation = neoObjs[2].designation
    /\ hist.args[1].designation = PyInt(433)
    /\ caObjs[1].neo = 2 /\ caObjs[2].neo = 2

\* C4: each object's approaches holds what was appended to that object and
\* nothing else: it is empty when the object is constructed, whatever was
\* appended before, and an append to another object leaves it as it was.
C4_IndependentApproaches ==
    \A n \in 1..Len(neoObjs) : Approaches(n) = hist.appended[n]

\* C4's case: an object constructed after an approach was appended to
\* another object, which has since had an approach of its own appended.
C4_Witness ==
    \E n, m \in 1..Len(neoObjs) :
        /\ n < m
        /\ hist.born[m] > 0
        /\ Len(hist.appended[n]) > 0
        /\ Approaches(m) = <<>>

C10_StartsUnlinked ==
    \A c \in 1..Len(caObjs) :
        /\ c \notin hist.linked => caObjs[c].neo = None
        /\ caObjs[c]._designation.t = "str"
        /\ caObjs[c]._designation.s =
               IF hist.args[c].designation.t = "int"
               THEN ToString(hist.args[c].designation.n)
               ELSE hist.args[c].designation.s

\* C10's case: an approach constructed with a number for its designation
\* and an object for its neo argument, not linked yet.
C10_Witness ==
    \E c \in 1..Len(caObjs) :
        /\ hist.args[c].neo # None
        /\ hist.args[c].designation = PyInt(433)
        /\ c \notin hist.linked

====
